---------------------------- MODULE Spec2Model ----------------------------
(***************************************************************************)
(* A model of the 20foods application: the text normaliser, the food       *)
(* catalog with its match index, the utterance matcher, the week           *)
(* aggregator and the persisted event log.                                 *)
(*                                                                         *)
(* Strings are sequences of one-character strings, so that trimming,       *)
(* lower-casing, substring search and replacement are computed the way     *)
(* the JavaScript string methods compute them.                             *)
(***************************************************************************)
EXTENDS Integers, Sequences, FiniteSets, TLC

VARIABLES
    m_foodEntries,            \* FoodData.m_foodEntries
    m_compareItemsByLength,   \* FoodData.m_compareItemsByLength
    m_compareItemsByOriginal, \* FoodData.m_compareItemsByOriginal
    m_historyEntries,         \* HistoryData.m_historyEntries
    m_startDayOfWeek,         \* Settings.m_startDayOfWeek
    localStorage,             \* the browser's localStorage, key -> value
    now,                      \* the wall clock read by new Date()
    phase,                    \* "loading", "running" or "failed" (Application.run)
    call,                     \* the last call observed: [op, arg, ret]
    m_pageStack,              \* MainController.m_pageStack, the top last
    hiddenPages,              \* the pages whose element has tp-page--is-hidden
    m_active,                 \* DictationPage.m_active
    m_recordedText,           \* innerText of dictation-recorded-text
    pauseShown,               \* the pause button is shown, the record button not
    recognition,              \* SpeechRecognition: "inactive", "running", "stopping"
    m_compareEntries,         \* ApplicationData.m_compareEntries
    m_selectedWeek,           \* ApplicationData.m_selectedWeek
    matcher                   \* what the matcher saw since the dictation page was shown

foodVars == <<m_foodEntries, m_compareItemsByLength, m_compareItemsByOriginal>>
historyVars == <<m_historyEntries, m_startDayOfWeek, localStorage, now, phase>>
dictationVars == <<m_active, m_recordedText, pauseShown, recognition, matcher>>
pageVars ==
    <<m_pageStack, hiddenPages, dictationVars, m_compareEntries, m_selectedWeek>>
vars == <<foodVars, historyVars, call, pageVars>>

(***************************************************************************)
(* Bounds of the model.                                                    *)
(***************************************************************************)
MaxStrLen == 4      \* longest input of the normaliser runs
MaxTextLen == 4     \* longest enumerated utterance
MaxRows == 2        \* most rows of an enumerated import
MaxDay == 14        \* last day of the enumerated dates
MaxLog == 2         \* most events of the log
MaxHeard == 2       \* most recognition events of one showing of the dictation page
MaxPending == 2     \* most alias records of the pending list

(***************************************************************************)
(* Characters.                                                             *)
(***************************************************************************)
Tab == "\t"

LowerLetters ==
    {"a", "b", "c", "d", "e", "f", "g", "h", "i", "j", "k", "l", "m",
     "n", "o", "p", "q", "r", "s", "t", "u", "v", "w", "x", "y", "z"}

\* String.prototype.toLowerCase on the upper-case letters the model uses.
ToLowerMap == [A |-> "a", B |-> "b", F |-> "f", I |-> "i"]

UpperLetters == DOMAIN ToLowerMap

\* \p{L} of the synonym separator pattern.
IsLetter(c) == c \in LowerLetters \cup UpperLetters

\* The white space String.prototype.trim removes (space and tab here).
IsWhiteSpace(c) == c \in {" ", Tab}

ToLowerChar(c) == IF c \in UpperLetters THEN ToLowerMap[c] ELSE c

(***************************************************************************)
(* JavaScript string methods.                                              *)
(***************************************************************************)
RECURSIVE TrimStart(_)
TrimStart(s) ==
    IF s = <<>> THEN <<>>
    ELSE IF IsWhiteSpace(Head(s)) THEN TrimStart(Tail(s))
    ELSE s

RECURSIVE TrimEnd(_)
TrimEnd(s) ==
    IF s = <<>> THEN <<>>
    ELSE IF IsWhiteSpace(s[Len(s)]) THEN TrimEnd(SubSeq(s, 1, Len(s) - 1))
    ELSE s

Trim(s) == TrimEnd(TrimStart(s))

RECURSIVE ToLowerCase(_)
ToLowerCase(s) ==
    IF s = <<>> THEN <<>>
    ELSE <<ToLowerChar(Head(s))>> \o ToLowerCase(Tail(s))

\* s.includes(pat); the empty pattern is included in every string.
Includes(s, pat) ==
    \E i \in 1..(Len(s) - Len(pat) + 1) : SubSeq(s, i, i + Len(pat) - 1) = pat

\* s.replaceAll(pat, rep) for a non-empty pat: one left-to-right pass over
\* the non-overlapping occurrences; the replaced text is not scanned again.
RECURSIVE ReplaceEach(_, _, _)
ReplaceEach(s, pat, rep) ==
    IF Len(s) < Len(pat) THEN s
    ELSE IF SubSeq(s, 1, Len(pat)) = pat
         THEN rep \o ReplaceEach(SubSeq(s, Len(pat) + 1, Len(s)), pat, rep)
         ELSE <<Head(s)>> \o ReplaceEach(Tail(s), pat, rep)

\* s.replaceAll('', rep): rep before every character and at the end.
RECURSIVE ReplaceBetween(_, _)
ReplaceBetween(s, rep) ==
    IF s = <<>> THEN rep
    ELSE rep \o <<Head(s)>> \o ReplaceBetween(Tail(s), rep)

\* A plausible slip: String.prototype.replace, which replaces the first
\* occurrence only.
ReplaceFirst(s, pat, rep) ==
    IF ~Includes(s, pat) THEN s
    ELSE LET i == CHOOSE j \in 1..(Len(s) - Len(pat) + 1) :
                      /\ SubSeq(s, j, j + Len(pat) - 1) = pat
                      /\ \A k \in 1..(j - 1) : SubSeq(s, k, k + Len(pat) - 1) # pat
         IN  SubSeq(s, 1, i - 1) \o rep \o SubSeq(s, i + Len(pat), Len(s))

ReplaceAll(s, pat, rep) ==
    IF pat = <<>> THEN ReplaceBetween(s, rep) ELSE ReplaceEach(s, pat, rep)

(***************************************************************************)
(* Text.                                                                   *)
(***************************************************************************)
normalizeName(input) == ToLowerCase(Trim(input))

normalizeForComparison(input) ==
    ReplaceAll(ToLowerCase(Trim(input)), <<" ">>, <<>>)

(***************************************************************************)
(* FoodEntry.                                                              *)
(***************************************************************************)
\* A character the pattern /[^\p{L} ]+/u matches.
IsSeparator(c) == ~IsLetter(c) /\ c # " "

\* s.split(/[^\p{L} ]+/u): the pieces between the runs of separators; cur
\* is the piece being read and inRun tells that the last character was a
\* separator.
RECURSIVE SplitFrom(_, _, _)
SplitFrom(s, cur, inRun) ==
    IF s = <<>> THEN <<cur>>
    ELSE IF IsSeparator(Head(s))
         THEN IF inRun THEN SplitFrom(Tail(s), cur, TRUE)
              ELSE <<cur>> \o SplitFrom(Tail(s), <<>>, TRUE)
         ELSE SplitFrom(Tail(s), Append(cur, Head(s)), FALSE)

SplitSynonyms(s) == SplitFrom(s, <<>>, FALSE)

RECURSIVE MapNormalizeName(_)
MapNormalizeName(pieces) ==
    IF pieces = <<>> THEN <<>>
    ELSE <<normalizeName(Head(pieces))>> \o MapNormalizeName(Tail(pieces))

\* .filter(Boolean) on strings: the empty string is dropped.
FilterNonEmpty(pieces) == SelectSeq(pieces, LAMBDA p : p # <<>>)

\* new FoodEntry(row); ref stands for the identity of the object.
FoodEntry(row, ref) ==
    [ref |-> ref,
     name |-> normalizeName(row[1]),
     category |-> normalizeName(row[2]),
     synonyms |-> FilterNonEmpty(MapNormalizeName(
                     SplitSynonyms(IF Len(row) > 2 THEN row[3] ELSE <<>>)))]

(***************************************************************************)
(* CompareEntry.                                                           *)
(***************************************************************************)
\* new CompareEntry(original, food); ref stands for the identity of the
\* object.
CompareEntry(original, food, ref) ==
    [ref |-> ref,
     original |-> normalizeName(original),
     normalized |-> normalizeForComparison(original),
     food |-> food]

(***************************************************************************)
(* FoodData.                                                               *)
(***************************************************************************)
hasFood(entries, name) == \E i \in DOMAIN entries : entries[i].name = name

\* A plausible slip: a row needs more than two cells.
RECURSIVE processRowsThreeCells(_, _)
processRowsThreeCells(rows, entries) ==
    IF rows = <<>> THEN entries
    ELSE IF Len(Head(rows)) > 2
         THEN processRowsThreeCells(Tail(rows),
                  Append(entries, FoodEntry(Head(rows), Len(entries) + 1)))
         ELSE processRowsThreeCells(Tail(rows), entries)

\* processRows: every row with more than one cell is pushed; a duplicate
\* name only logs a warning.
RECURSIVE processRowsFrom(_, _)
processRowsFrom(rows, entries) ==
    IF rows = <<>> THEN entries
    ELSE IF Len(Head(rows)) > 1
         THEN processRowsFrom(Tail(rows),
                  Append(entries, FoodEntry(Head(rows), Len(entries) + 1)))
         ELSE processRowsFrom(Tail(rows), entries)

processRows(rows) == processRowsFrom(rows, <<>>)

RECURSIVE pushSynonyms(_, _, _)
pushSynonyms(items, synonyms, food) ==
    IF synonyms = <<>> THEN items
    ELSE pushSynonyms(
             Append(items, CompareEntry(Head(synonyms), food, Len(items) + 1)),
             Tail(synonyms), food)

addFoodToCompareItems(items, food) ==
    pushSynonyms(Append(items, CompareEntry(food.name, food, Len(items) + 1)),
                 food.synonyms, food)

RECURSIVE buildCompareItemsFrom(_, _)
buildCompareItemsFrom(entries, items) ==
    IF entries = <<>> THEN items
    ELSE buildCompareItemsFrom(Tail(entries),
             addFoodToCompareItems(items, Head(entries)))

buildCompareItems(entries) == buildCompareItemsFrom(entries, <<>>)

\* A plausible slip: the operands swapped, which sorts ascending.
ByLengthAscending(first, second) ==
    Len(first.normalized) - Len(second.normalized)

\* The comparator second.normalized.length - first.normalized.length.
ByLengthDescending(first, second) ==
    Len(second.normalized) - Len(first.normalized)

\* The collation order of the characters of an original.
Collation ==
    <<Tab, " ", ",", ";", "a", "b", "c", "d", "e", "f", "g", "h", "i", "j",
      "k", "l", "m", "n", "o", "p", "q", "r", "s", "t", "u", "v", "w", "x",
      "y", "z">>

Rank(c) == CHOOSE i \in DOMAIN Collation : Collation[i] = c

\* first.localeCompare(second) as -1, 0 or 1.
RECURSIVE localeCompare(_, _)
localeCompare(first, second) ==
    IF first = <<>> THEN (IF second = <<>> THEN 0 ELSE -1)
    ELSE IF second = <<>> THEN 1
    ELSE IF Rank(Head(first)) < Rank(Head(second)) THEN -1
    ELSE IF Rank(Head(first)) > Rank(Head(second)) THEN 1
    ELSE localeCompare(Tail(first), Tail(second))

\* A plausible slip: a sort that is not stable, x going before the elements
\* that compare equal to it.
RECURSIVE InsertSortedUnstable(_, _, _)
InsertSortedUnstable(sorted, x, byLength) ==
    IF sorted = <<>> THEN <<x>>
    ELSE IF (IF byLength THEN ByLengthDescending(x, Head(sorted))
             ELSE localeCompare(x.original, Head(sorted).original)) <= 0
         THEN <<x>> \o sorted
         ELSE <<Head(sorted)>> \o InsertSortedUnstable(Tail(sorted), x, byLength)

\* Array.prototype.sort is stable: x goes before the first element that the
\* comparator puts strictly after it. byLength selects the comparator.
RECURSIVE InsertSorted(_, _, _)
InsertSorted(sorted, x, byLength) ==
    IF sorted = <<>> THEN <<x>>
    ELSE IF (IF byLength THEN ByLengthDescending(x, Head(sorted))
             ELSE localeCompare(x.original, Head(sorted).original)) < 0
         THEN <<x>> \o sorted
         ELSE <<Head(sorted)>> \o InsertSorted(Tail(sorted), x, byLength)

RECURSIVE SortItems(_, _, _)
SortItems(items, sorted, byLength) ==
    IF items = <<>> THEN sorted
    ELSE SortItems(Tail(items), InsertSorted(sorted, Head(items), byLength),
                   byLength)

sortByLength(items) == SortItems(items, <<>>, TRUE)

\* A plausible slip: the second list sorted with the comparator of the first.
sortByOriginalByLength(items) == SortItems(items, <<>>, TRUE)

sortByOriginal(items) == SortItems(items, <<>>, FALSE)

\* A plausible slip: one match per occurrence (the first occurrence is cut
\* out and the same alias is tried again).
RECURSIVE processTextPerOccurrence(_, _, _)
processTextPerOccurrence(items, normalizedText, result) ==
    IF items = <<>> THEN result
    ELSE IF Head(items).normalized # <<>>
            /\ Includes(normalizedText, Head(items).normalized)
         THEN processTextPerOccurrence(items,
                  ReplaceFirst(normalizedText, Head(items).normalized, <<>>),
                  Append(result, Head(items)))
         ELSE processTextPerOccurrence(Tail(items), normalizedText, result)

\* processText: the forEach over m_compareItemsByLength, with the shrinking
\* working copy normalizedText and the result built so far.
RECURSIVE processTextFrom(_, _, _)
processTextFrom(items, normalizedText, result) ==
    IF items = <<>> THEN result
    ELSE IF Includes(normalizedText, Head(items).normalized)
         THEN processTextFrom(Tail(items),
                  ReplaceAll(normalizedText, Head(items).normalized, <<>>),
                  Append(result, Head(items)))
         ELSE processTextFrom(Tail(items), normalizedText, result)

processText(items, text) ==
    processTextFrom(items, normalizeForComparison(text), <<>>)

(***************************************************************************)
(* Dates.  A Date is [day, ms]: the days since Sunday 2023-12-31 and the   *)
(* milliseconds since midnight, in a time zone without offset, so that the *)
(* local fields (getDay, setDate, setHours) and the UTC fields of          *)
(* toISOString are the same.                                               *)
(***************************************************************************)
MsPerDay == 24 * 60 * 60 * 1000

Date(day, ms) == [day |-> day, ms |-> ms]

\* The remainder operator of JavaScript, which has the sign of the dividend.
JsRem(a, b) == IF a >= 0 THEN a % b ELSE -((-a) % b)

\* date.getDay(): 0 is Sunday.
getDay(date) == date.day % 7

\* date.setDate(date.getDate() + days).
addDays(date, days) == [date EXCEPT !.day = @ + days]

\* date.setHours(hours, minutes, seconds, milliseconds).
setHours(date, hours, minutes, seconds, milliseconds) ==
    [date EXCEPT !.ms = ((hours * 60 + minutes) * 60 + seconds) * 1000
                            + milliseconds]

\* The sign of first.getTime() - second.getTime().
compareTime(first, second) ==
    IF first.day # second.day
    THEN (IF first.day < second.day THEN -1 ELSE 1)
    ELSE IF first.ms # second.ms
    THEN (IF first.ms < second.ms THEN -1 ELSE 1)
    ELSE 0

\* first <= second on Date objects.
DateLE(first, second) == compareTime(first, second) <= 0

\* The days of the months of 2024.
MonthLengths == <<31, 29, 31, 30, 31, 30, 31, 31, 30, 31, 30, 31>>

RECURSIVE MonthAndDay(_, _)
MonthAndDay(dayOfYear, month) ==
    IF dayOfYear <= MonthLengths[month] THEN <<month, dayOfYear>>
    ELSE MonthAndDay(dayOfYear - MonthLengths[month], month + 1)

RECURSIVE DaysBeforeMonth(_)
DaysBeforeMonth(month) ==
    IF month = 1 THEN 0
    ELSE MonthLengths[month - 1] + DaysBeforeMonth(month - 1)

\* A plausible slip: the timestamp written without its milliseconds.
toISOStringSeconds(date) ==
    LET ymd == IF date.day <= 0 THEN <<2023, 12, 31 + date.day>>
               ELSE <<2024>> \o MonthAndDay(date.day, 1)
        seconds == date.ms \div 1000
    IN  <<ymd[1], ymd[2], ymd[3], seconds \div 3600, (seconds \div 60) % 60,
          seconds % 60, 0>>

\* date.toISOString(): <<year, month, day, hours, minutes, seconds, ms>> of
\* "YYYY-MM-DDTHH:mm:ss.sssZ", for the dates of December 2023 and of 2024.
toISOString(date) ==
    LET ymd == IF date.day <= 0 THEN <<2023, 12, 31 + date.day>>
               ELSE <<2024>> \o MonthAndDay(date.day, 1)
        seconds == date.ms \div 1000
    IN  <<ymd[1], ymd[2], ymd[3], seconds \div 3600, (seconds \div 60) % 60,
          seconds % 60, date.ms % 1000>>

\* new Date(isoString).
parseDate(iso) ==
    Date(IF iso[1] = 2023 THEN iso[3] - 31
         ELSE DaysBeforeMonth(iso[2]) + iso[3],
         ((iso[4] * 60 + iso[5]) * 60 + iso[6]) * 1000 + iso[7])

(***************************************************************************)
(* HistoryEntry.                                                           *)
(***************************************************************************)
\* null, and the value of a call that threw.
Null == [null |-> TRUE]

\* What localStorage.getItem returns: no item (null), or the string stored.
NoItem == [present |-> FALSE, value |-> <<>>]

Item(value) == [present |-> TRUE, value |-> value]

Threw == [threw |-> TRUE]

\* FoodData.findForName on the catalog entries.
RECURSIVE findForName(_, _)
findForName(entries, name) ==
    IF entries = <<>> THEN Null
    ELSE IF Head(entries).name = name THEN Head(entries)
    ELSE findForName(Tail(entries), name)

\* A plausible slip: the name of the food kept as the consumed name.
createFromInputFoodName(compareEntry, date) ==
    [food |-> compareEntry.food, consumedName |-> compareEntry.food.name,
     date |-> date]

\* HistoryEntry.createFromInput(compareEntry), with the date new Date() gives.
createFromInput(compareEntry, date) ==
    [food |-> compareEntry.food, consumedName |-> compareEntry.original,
     date |-> date]

\* A plausible slip: the name of the food stored as the consumed name.
toJsonFoodName(entry) ==
    [foodName |-> entry.food.name, consumedName |-> entry.food.name,
     date |-> toISOString(entry.date)]

\* entry.toJson(), the JSON text as its three fields.
toJson(entry) ==
    [foodName |-> entry.food.name, consumedName |-> entry.consumedName,
     date |-> toISOString(entry.date)]

\* HistoryEntry.createFromStorage(data) against the catalog entries.
createFromStorage(entries, data) ==
    LET food == findForName(entries, data.foodName)
    IN  IF food = Null THEN Threw
        ELSE [food |-> food, consumedName |-> data.consumedName,
              date |-> parseDate(data.date)]

(***************************************************************************)
(* WeekEntry.                                                              *)
(***************************************************************************)
\* foods.add(food) on a Set, which keeps the order of insertion.
setAdd(foods, food) ==
    IF \E i \in DOMAIN foods : foods[i] = food THEN foods
    ELSE Append(foods, food)

RECURSIVE insertFoodByName(_, _)
insertFoodByName(sorted, food) ==
    IF sorted = <<>> THEN <<food>>
    ELSE IF localeCompare(food.name, Head(sorted).name) < 0
         THEN <<food>> \o sorted
         ELSE <<Head(sorted)>> \o insertFoodByName(Tail(sorted), food)

RECURSIVE sortFoodsByName(_, _)
sortFoodsByName(foods, sorted) ==
    IF foods = <<>> THEN sorted
    ELSE sortFoodsByName(Tail(foods), insertFoodByName(sorted, Head(foods)))

\* new WeekEntry(startDate, endDate, foods).
WeekEntry(startDate, endDate, foods) ==
    [startDate |-> startDate, endDate |-> endDate,
     foods |-> sortFoodsByName(foods, <<>>)]

(***************************************************************************)
(* HistoryData.                                                            *)
(***************************************************************************)
\* A plausible slip: the offset without the + 7 that keeps it positive.
dayDifferenceSigned(weekday, firstDay) == JsRem(weekday - firstDay, 7)

\* (date.getDay() - firstDay + 7) % 7.
dayDifference(weekday, firstDay) == JsRem(weekday - firstDay + 7, 7)

\* A plausible slip: the week always starts on Sunday.
startOfWeekSunday(inputDate) ==
    setHours(addDays(inputDate, -dayDifference(getDay(inputDate), 0)),
             0, 0, 0, 0)

startOfWeek(inputDate) ==
    LET firstDay == m_startDayOfWeek
    IN  setHours(addDays(inputDate, -dayDifference(getDay(inputDate), firstDay)),
                 0, 0, 0, 0)

\* A plausible slip: the time set to 23:59:59 without the milliseconds.
endOfWeekSeconds(inputDate) ==
    setHours(addDays(startOfWeek(inputDate), 6), 23, 59, 59, 0)

endOfWeek(inputDate) ==
    setHours(addDays(startOfWeek(inputDate), 6), 23, 59, 59, 999)

\* A plausible slip: the end of the week excluded.
inWeekExclusive(date, startDate, endDate) ==
    DateLE(startDate, date) /\ compareTime(date, endDate) < 0

\* (entry.date >= startDate) && (entry.date <= endDate).
inWeek(date, startDate, endDate) ==
    DateLE(startDate, date) /\ DateLE(date, endDate)

RECURSIVE collectFoods(_, _, _, _)
collectFoods(entries, startDate, endDate, foods) ==
    IF entries = <<>> THEN foods
    ELSE collectFoods(Tail(entries), startDate, endDate,
             IF inWeek(Head(entries).date, startDate, endDate)
             THEN setAdd(foods, Head(entries).food)
             ELSE foods)

getWeekEntryForDate(date) ==
    LET startDate == startOfWeek(date)
        endDate == endOfWeek(startDate)
    IN  WeekEntry(startDate, endDate,
                  collectFoods(m_historyEntries, startDate, endDate, <<>>))

\* A plausible slip: the step back of six days.
previousWeekSixDays(endDate) == addDays(endDate, -6)

\* endDate.setDate(endDate.getDate() - 7).
previousWeek(endDate) == addDays(endDate, -7)

\* A plausible slip: the loop goes on while endDate > lastDate.
RECURSIVE getCountsPerWeekStrict(_, _, _)
getCountsPerWeekStrict(endDate, lastDate, result) ==
    IF compareTime(endDate, lastDate) > 0
    THEN getCountsPerWeekStrict(previousWeek(endDate), lastDate,
             Append(result, getWeekEntryForDate(endDate)))
    ELSE result

\* The for loop of getCountsPerWeek: while endDate >= lastDate the week of
\* endDate is pushed and endDate goes back a week.
RECURSIVE getCountsPerWeekFrom(_, _, _)
getCountsPerWeekFrom(endDate, lastDate, result) ==
    IF compareTime(endDate, lastDate) >= 0
    THEN getCountsPerWeekFrom(previousWeek(endDate), lastDate,
             Append(result, getWeekEntryForDate(endDate)))
    ELSE result

\* getCountsPerWeek when new Date() gives today.
getCountsPerWeek(today) ==
    IF Len(m_historyEntries) = 0 THEN <<>>
    ELSE getCountsPerWeekFrom(endOfWeek(today),
             m_historyEntries[Len(m_historyEntries)].date, <<>>)

\* A plausible slip: a sort that is not stable, an entry going before the
\* entries of the same date.
RECURSIVE insertByDateUnstable(_, _)
insertByDateUnstable(sorted, entry) ==
    IF sorted = <<>> THEN <<entry>>
    ELSE IF compareTime(Head(sorted).date, entry.date) <= 0
         THEN <<entry>> \o sorted
         ELSE <<Head(sorted)>> \o insertByDateUnstable(Tail(sorted), entry)

\* sortEntries: a stable sort by second.date.getTime() - first.date.getTime().
RECURSIVE insertByDate(_, _)
insertByDate(sorted, entry) ==
    IF sorted = <<>> THEN <<entry>>
    ELSE IF compareTime(Head(sorted).date, entry.date) < 0
         THEN <<entry>> \o sorted
         ELSE <<Head(sorted)>> \o insertByDate(Tail(sorted), entry)

RECURSIVE sortEntriesFrom(_, _)
sortEntriesFrom(entries, sorted) ==
    IF entries = <<>> THEN sorted
    ELSE sortEntriesFrom(Tail(entries), insertByDate(sorted, Head(entries)))

sortEntries(entries) == sortEntriesFrom(entries, <<>>)

\* entries.map(entry => entry.toJson()), the value stored under historyData.
RECURSIVE saveToStorage(_)
saveToStorage(entries) ==
    IF entries = <<>> THEN <<>>
    ELSE <<toJson(Head(entries))>> \o saveToStorage(Tail(entries))

\* A plausible slip: a record whose food is not found is skipped.
RECURSIVE loadEachSkipping(_, _)
loadEachSkipping(entries, texts) ==
    IF texts = <<>> THEN [threw |-> FALSE, entries |-> <<>>]
    ELSE LET first == createFromStorage(entries, Head(texts))
             rest == loadEachSkipping(entries, Tail(texts))
         IN  IF first = Threw THEN rest
             ELSE [threw |-> FALSE, entries |-> <<first>> \o rest.entries]

\* texts.map(text => HistoryEntry.createFromStorage(text)) against the
\* catalog entries: threw tells that createFromStorage threw for one of the
\* stored records, and then there is no result.
RECURSIVE loadEach(_, _)
loadEach(entries, texts) ==
    IF texts = <<>> THEN [threw |-> FALSE, entries |-> <<>>]
    ELSE LET first == createFromStorage(entries, Head(texts))
             rest == loadEach(entries, Tail(texts))
         IN  IF first = Threw \/ rest.threw
             THEN [threw |-> TRUE, entries |-> <<>>]
             ELSE [threw |-> FALSE, entries |-> <<first>> \o rest.entries]

\* loadFromStorage: no item, or the empty string, gives the empty log.
loadFromStorage(entries, raw) ==
    IF ~raw.present THEN [threw |-> FALSE, entries |-> <<>>]
    ELSE loadEach(entries, raw.value)

\* entries.forEach(entry => push(createFromInput(entry))) at the time date.
RECURSIVE pushEntries(_, _, _)
pushEntries(log, entries, date) ==
    IF entries = <<>> THEN log
    ELSE pushEntries(Append(log, createFromInput(Head(entries), date)),
                     Tail(entries), date)

(***************************************************************************)
(* Settings.                                                               *)
(***************************************************************************)
Digits == <<"0", "1", "2", "3", "4", "5", "6", "7", "8", "9">>

IsDigit(c) == \E i \in DOMAIN Digits : Digits[i] = c

DigitValue(c) == (CHOOSE i \in DOMAIN Digits : Digits[i] = c) - 1

\* The number NaN, which is no week day and no value of a digit string.
NaN == 0 - 1

\* parseInt(s) of a string of digits; NaN when s starts with no digit.
RECURSIVE parseDigits(_, _)
parseDigits(s, value) ==
    IF s = <<>> \/ ~IsDigit(Head(s)) THEN value
    ELSE parseDigits(Tail(s), value * 10 + DigitValue(Head(s)))

parseInt(s) ==
    IF s = <<>> \/ ~IsDigit(Head(s)) THEN NaN ELSE parseDigits(s, 0)

\* A plausible slip: the week day stored counted from 1.
toStringOneBased(value) == <<Digits[value + 2]>>

\* value.toString() of a week day.
toString(value) == <<Digits[value + 1]>>

\* The Settings constructor: parseInt(getItem(key) || '0').
SettingsConstructor(storage) ==
    parseInt(IF ~storage.startDayOfWeek.present
                \/ storage.startDayOfWeek.value = <<>>
             THEN <<"0">> ELSE storage.startDayOfWeek.value)

(***************************************************************************)
(* MainController and PageBase.                                            *)
(***************************************************************************)
Pages ==
    {"loading", "home", "add", "confirm", "dictation", "history", "settings",
     "week"}

\* The pages whose header has a back button.
PagesWithBackButton == Pages \ {"loading", "home"}

\* this.m_pageStack.at(-1) of a stack that is not empty.
top(stack) == stack[Len(stack)]

\* this.m_pageStack.pop(), which leaves the empty stack as it is.
pop(stack) == IF stack = <<>> THEN stack ELSE SubSeq(stack, 1, Len(stack) - 1)

\* PageBase.hide: classList.add(PAGE_HIDE_CLASS).
hide(hidden, page) == hidden \cup {page}

\* PageBase.show: classList.remove(PAGE_HIDE_CLASS).
show(hidden, page) == hidden \ {page}

\* MainController.showPage(page, replace).
showPage(stack, hidden, page, replace) ==
    [stack |-> Append(IF replace THEN pop(stack) ELSE stack, page),
     hidden |-> show(IF stack # <<>> THEN hide(hidden, top(stack)) ELSE hidden,
                     page)]

\* A plausible slip: back does not show the page that becomes the top.
backWithoutShow(stack, hidden) ==
    [stack |-> pop(stack),
     hidden |-> IF stack # <<>> THEN hide(hidden, top(stack)) ELSE hidden]

\* MainController.back().
back(stack, hidden) ==
    LET rest == pop(stack)
        afterHide == IF stack # <<>> THEN hide(hidden, top(stack)) ELSE hidden
    IN  [stack |-> rest,
         hidden |-> IF rest # <<>> THEN show(afterHide, top(rest))
                    ELSE afterHide]

\* A plausible slip: the confirm page always pushed.
neverReplace(stack) == FALSE

\* this.m_pageStack.at(-1) === dictationPage.
topIsDictation(stack) == stack # <<>> /\ top(stack) = "dictation"

\* MainController.showConfirm().
showConfirm(stack, hidden) ==
    showPage(stack, hidden, "confirm", topIsDictation(stack))

\* MainController.start().
start(stack, hidden) == showPage(stack, hide(hidden, "loading"), "home", FALSE)

(***************************************************************************)
(* DictationPage and ApplicationData.                                      *)
(***************************************************************************)
STOP_WORDS ==
    {<<"s", "t", "o", "p">>, <<"d", "o", "n", "e">>,
     <<"f", "i", "n", "i", "s", "h">>}

containsStopCommand(text) ==
    \E stopWord \in STOP_WORDS :
        Includes(normalizeForComparison(text), stopWord)

\* A plausible slip: the interim transcripts recorded too.
RECURSIVE recordedTextWithInterim(_, _)
recordedTextWithInterim(text, results) ==
    IF results = <<>> THEN text
    ELSE recordedTextWithInterim(text \o Head(results).transcript \o <<" ">>,
                                 Tail(results))

\* The loop of handleRecognitionResult over the results of the event: the
\* transcript of a final result and a space are added to the recorded text.
RECURSIVE recordedTextAfter(_, _)
recordedTextAfter(text, results) ==
    IF results = <<>> THEN text
    ELSE recordedTextAfter(
             IF Head(results).isFinal
             THEN text \o Head(results).transcript \o <<" ">>
             ELSE text,
             Tail(results))

\* The final results of an event, as the session accumulates them.
RECURSIVE FinalFragments(_)
FinalFragments(results) ==
    IF results = <<>> THEN <<>>
    ELSE (IF Head(results).isFinal
          THEN Head(results).transcript \o <<" ">> ELSE <<>>)
         \o FinalFragments(Tail(results))

\* What the matcher saw of a showing of the dictation page that starts: the
\* number of events heard, the final fragments, the number of calls of
\* processText and the text of the last call.
NewSession == [heard |-> 0, finals |-> <<>>, calls |-> 0, text |-> <<>>]

\* ApplicationData.removeCompareEntry: the first occurrence is spliced out.
removeCompareEntry(entries, entry) ==
    IF \E i \in DOMAIN entries : entries[i] = entry
    THEN LET index == CHOOSE i \in DOMAIN entries :
                          /\ entries[i] = entry
                          /\ \A j \in 1..(i - 1) : entries[j] # entry
         IN  SubSeq(entries, 1, index - 1)
             \o SubSeq(entries, index + 1, Len(entries))
    ELSE entries

(***************************************************************************)
(* Inputs.                                                                 *)
(***************************************************************************)
\* Every string over chars of at most n characters.
StringsUpTo(chars, n) == UNION {[1..k -> chars] : k \in 0..n}

\* Every sequence over pool of at most n elements.
ListsUpTo(pool, n) == UNION {[1..k -> pool] : k \in 0..n}

NormalizerChars == {"a", "A", " ", Tab, ","}

NormalizerInputs == StringsUpTo(NormalizerChars, MaxStrLen)

\* Rows of an import: a row with one cell, a row with an empty name, names
\* and synonyms over two letters, with spaces, capitals and separators.
RowPool ==
    {<<<<"a">>>>,
     <<<<>>, <<"f">>>>,
     <<<<"a", "a">>, <<"f">>>>,
     <<<<"b", "b">>, <<"f">>, <<>>>>,
     <<<<"a", "b">>, <<"f">>, <<"b", ",", "A", " ", "b">>>>,
     <<<<" ", "A", "b", " ">>, <<"F">>, <<",", "a", ";", " ", "b", "b">>>>}

\* The catalogs of the two scenarios of the specification.
PeaRows ==
    <<<<<<"p", "e", "a">>, <<"v">>>>,
      <<<<"p", "e", "a", "n", "u", "t", " ", "b", "u", "t", "t", "e", "r">>,
        <<"s">>, <<"p", "e", "a", "n", "u", "t">>>>>>

AppleRows ==
    <<<<<<"a", "p", "p", "l", "e">>, <<"f", "r", "u", "i", "t">>,
        <<"g", "r", "e", "e", "n", " ", "a", "p", "p", "l", "e">>>>,
      <<<<"b", "a", "n", "a", "n", "a">>, <<"f", "r", "u", "i", "t">>, <<>>>>>>

RowLists == ListsUpTo(RowPool, MaxRows) \cup {PeaRows, AppleRows}

PeaText ==
    <<"I", " ", "a", "t", "e", " ", "p", "e", "a", "n", "u", "t", " ",
      "b", "u", "t", "t", "e", "r">>

AppleText ==
    <<"I", " ", "h", "a", "d", " ", "a", " ", "g", "r", "e", "e", "n", " ",
      "a", "p", "p", "l", "e", " ", "a", "n", "d", " ", "a", " ",
      "b", "a", "n", "a", "n", "a">>

AppleAppleText ==
    <<"a", "p", "p", "l", "e", " ", "a", "n", "d", " ",
      "a", "p", "p", "l", "e">>

TextChars == {"a", "b", " "}

Texts ==
    StringsUpTo(TextChars, MaxTextLen) \cup {PeaText, AppleText, AppleAppleText}

(***************************************************************************)
(* The state after construction.                                           *)
(***************************************************************************)
NoCall == [op |-> "none", arg |-> <<>>, ret |-> <<>>]

InitFood ==
    /\ m_foodEntries = <<>>
    /\ m_compareItemsByLength = <<>>
    /\ m_compareItemsByOriginal = <<>>

EmptyStorage == [historyData |-> NoItem, startDayOfWeek |-> NoItem]

InitIdle ==
    /\ m_historyEntries = <<>>
    /\ m_startDayOfWeek = SettingsConstructor(EmptyStorage)
    /\ localStorage = EmptyStorage
    /\ now = Date(0, 0)
    /\ phase = "loading"

\* The pages as the document has them and the singletons as constructed.
InitPages ==
    /\ m_pageStack = <<>>
    /\ hiddenPages = Pages \ {"loading"}
    /\ m_active = FALSE
    /\ m_recordedText = <<>>
    /\ pauseShown = TRUE
    /\ recognition = "inactive"
    /\ m_compareEntries = <<>>
    /\ m_selectedWeek = Null
    /\ matcher = NewSession

(***************************************************************************)
(* The normaliser: the input is drawn by the initial state and the         *)
(* functions are applied to it.                                            *)
(***************************************************************************)
NormalizeForComparison ==
    /\ call.op = "input"
    /\ call' = [op |-> "normalizeForComparison", arg |-> call.arg,
                ret |-> normalizeForComparison(call.arg)]
    /\ UNCHANGED <<foodVars, historyVars>>
    /\ UNCHANGED pageVars

NormalizeName ==
    /\ call.op = "input"
    /\ call' = [op |-> "normalizeName", arg |-> call.arg,
                ret |-> normalizeName(call.arg)]
    /\ UNCHANGED <<foodVars, historyVars>>
    /\ UNCHANGED pageVars

InitText ==
    /\ InitFood
    /\ InitPages
    /\ InitIdle
    /\ call \in {[op |-> "input", arg |-> x, ret |-> <<>>] :
                    x \in NormalizerInputs}

NextText ==
    \/ NormalizeForComparison
    \/ NormalizeName

SpecText == InitText /\ [][NextText]_vars

(***************************************************************************)
(* The catalog and the matcher.                                            *)
(***************************************************************************)
\* FoodData.import(rows): processRows, buildCompareItems, sortCompareItems.
Import(rows) ==
    /\ call.op # "processText"
    /\ LET entries == processRows(rows)
           items == buildCompareItems(entries)
       IN  /\ m_foodEntries' = entries
           /\ m_compareItemsByLength' = sortByLength(items)
           /\ m_compareItemsByOriginal' = sortByOriginal(items)
    /\ call' = [op |-> "import", arg |-> rows, ret |-> <<>>]
    /\ UNCHANGED historyVars
    /\ UNCHANGED pageVars

\* FoodData.processText(text); call keeps the one utterance observed.
ProcessText(text) ==
    /\ call.op # "processText"
    /\ call' = [op |-> "processText", arg |-> text,
                ret |-> processText(m_compareItemsByLength, text)]
    /\ UNCHANGED <<foodVars, historyVars>>
    /\ UNCHANGED pageVars

InitMatch == InitFood /\ InitIdle /\ InitPages /\ call = NoCall

NextMatch ==
    \/ \E rows \in RowLists : Import(rows)
    \/ \E text \in Texts : ProcessText(text)

SpecMatch == InitMatch /\ [][NextMatch]_vars

(***************************************************************************)
(* The week boundaries: the week start and the date are drawn by the       *)
(* initial state and the functions are applied to the date.                *)
(***************************************************************************)
\* The times of day of the enumerated dates: midnight, noon, 23:59 and the
\* last millisecond of the day.
TimesOfDay ==
    {0, 12 * 60 * 60 * 1000, (23 * 60 + 59) * 60 * 1000, MsPerDay - 1}

Dates == {Date(day, ms) : day \in 0..MaxDay, ms \in TimesOfDay}

\* The values of the options of the week-start select.
WeekStartOptions == 0..6

StartOfWeek ==
    /\ call.op = "input"
    /\ call' = [op |-> "startOfWeek", arg |-> call.arg,
                ret |-> startOfWeek(call.arg)]
    /\ UNCHANGED <<foodVars, historyVars>>
    /\ UNCHANGED pageVars

EndOfWeek ==
    /\ call.op = "input"
    /\ call' = [op |-> "endOfWeek", arg |-> call.arg,
                ret |-> endOfWeek(call.arg)]
    /\ UNCHANGED <<foodVars, historyVars>>
    /\ UNCHANGED pageVars

GetWeekEntryForDate ==
    /\ call.op = "input"
    /\ call' = [op |-> "getWeekEntryForDate", arg |-> call.arg,
                ret |-> getWeekEntryForDate(call.arg)]
    /\ UNCHANGED <<foodVars, historyVars>>
    /\ UNCHANGED pageVars

InitDate ==
    /\ InitFood
    /\ InitPages
    /\ m_historyEntries = <<>>
    /\ \E value \in WeekStartOptions :
          /\ localStorage = [EmptyStorage EXCEPT !.startDayOfWeek = Item(toString(value))]
          /\ m_startDayOfWeek = SettingsConstructor(localStorage)
    /\ now = Date(0, 0)
    /\ phase = "loading"
    /\ call \in {[op |-> "input", arg |-> date, ret |-> <<>>] : date \in Dates}

NextDate ==
    \/ StartOfWeek
    \/ EndOfWeek
    \/ GetWeekEntryForDate

SpecDate == InitDate /\ [][NextDate]_vars

(***************************************************************************)
(* The application: start-up, the event log, the settings and the clock.   *)
(***************************************************************************)
BananaRows ==
    <<<<<<"b", "a", "n", "a", "n", "a">>, <<"f", "r", "u", "i", "t">>, <<>>>>>>

\* Two rows of one name.
TwinRows == <<<<<<"a", "a">>, <<"f">>>>, <<<<"a", "a">>, <<"f">>>>>>

\* The rows the CSV file may hold when the application starts.
StartupRows == {AppleRows, BananaRows, TwinRows}

\* The instants at which the clock is read: around the Sunday 2024-01-07
\* and the Saturday 2024-01-13.
ClockInstants ==
    {Date(0, 0), Date(6, MsPerDay - 1), Date(7, 0),
     Date(7, (23 * 60 + 59) * 60 * 1000), Date(13, MsPerDay - 1), Date(14, 0)}

\* The week starts the settings page is used with.
WeekStartChoices == {0, 1, 6}

\* The calls that only read the state; the call observed ends a behaviour.
Queries == {"getWeekEntryForDate", "getCountForToday", "getCountsPerWeek"}

Observing == call.op \notin Queries

\* The non-empty lists over the alias records of at most n entries.
PendingLists(n) ==
    UNION {[1..k -> {m_compareItemsByOriginal[i] :
                        i \in DOMAIN m_compareItemsByOriginal}] : k \in 1..n}

\* A plausible slip: the application started whatever initialize did.
phaseAlwaysRunning(threw) == "running"

\* mainController.start() is reached when initialize did not throw.
phaseAfterRun(threw) == IF threw THEN "failed" ELSE "running"

\* Application.run after the rows arrived: foodData.import(rows) and
\* historyData.initialize(); mainController.start() is reached only when
\* initialize did not throw.
Run(rows) ==
    /\ Observing
    /\ phase = "loading"
    /\ LET entries == processRows(rows)
           items == buildCompareItems(entries)
           loaded == loadFromStorage(entries, localStorage.historyData)
       IN  /\ m_foodEntries' = entries
           /\ m_compareItemsByLength' = sortByLength(items)
           /\ m_compareItemsByOriginal' = sortByOriginal(items)
           /\ m_historyEntries' = IF loaded.threw THEN m_historyEntries
                                  ELSE sortEntries(loaded.entries)
           /\ phase' = phaseAfterRun(loaded.threw)
           /\ call' = [op |-> "run", arg |-> <<>>, ret |-> loaded.threw]
    /\ LET started == start(m_pageStack, hiddenPages)
       IN  IF phase' = "running"
           THEN m_pageStack' = started.stack /\ hiddenPages' = started.hidden
           ELSE UNCHANGED <<m_pageStack, hiddenPages>>
    /\ UNCHANGED <<m_startDayOfWeek, localStorage, now, dictationVars,
                   m_compareEntries, m_selectedWeek>>

\* Application.run when Tools.loadCSV rejects: nothing after the await runs.
LoadCsvFails ==
    /\ Observing
    /\ phase = "loading"
    /\ phase' = "failed"
    /\ call' = [op |-> "run", arg |-> <<>>, ret |-> TRUE]
    /\ UNCHANGED <<foodVars, m_historyEntries, m_startDayOfWeek, localStorage,
                   now>>
    /\ UNCHANGED pageVars

\* The page is loaded again: every singleton is constructed anew and only
\* localStorage is kept.
Reload ==
    /\ Observing
    /\ phase # "loading"
    /\ m_foodEntries' = <<>>
    /\ m_compareItemsByLength' = <<>>
    /\ m_compareItemsByOriginal' = <<>>
    /\ m_historyEntries' = <<>>
    /\ m_startDayOfWeek' = SettingsConstructor(localStorage)
    /\ phase' = "loading"
    /\ call' = NoCall
    /\ m_pageStack' = <<>>
    /\ hiddenPages' = Pages \ {"loading"}
    /\ m_active' = FALSE
    /\ m_recordedText' = <<>>
    /\ pauseShown' = TRUE
    /\ recognition' = "inactive"
    /\ m_compareEntries' = <<>>
    /\ m_selectedWeek' = Null
    /\ matcher' = NewSession
    /\ UNCHANGED <<localStorage, now>>

\* historyData.add(entries): push, sortEntries, saveToStorage.
Add(entries) ==
    /\ Observing
    /\ phase = "running"
    /\ LET log == sortEntries(pushEntries(m_historyEntries, entries, now))
       IN  /\ m_historyEntries' = log
           /\ localStorage' = [localStorage EXCEPT
                                  !.historyData = Item(saveToStorage(log))]
    /\ call' = [op |-> "add", arg |-> entries, ret |-> <<>>]
    /\ UNCHANGED <<foodVars, m_startDayOfWeek, now, phase>>
    /\ UNCHANGED pageVars

\* A plausible slip: clear leaves the entries where they are.
clearKeepsEntries(entries) == entries

\* this.m_historyEntries = [] of clear.
clearEntries(entries) == <<>>

\* historyData.clear().
Clear ==
    /\ Observing
    /\ phase = "running"
    /\ m_historyEntries' = clearEntries(m_historyEntries)
    /\ localStorage' = [localStorage EXCEPT
                          !.historyData =
                              Item(saveToStorage(m_historyEntries'))]
    /\ call' = [op |-> "clear", arg |-> <<>>, ret |-> <<>>]
    /\ UNCHANGED <<foodVars, m_startDayOfWeek, now, phase>>
    /\ UNCHANGED pageVars

\* SettingsPage.handleWeekStartChange with the value of the select, and the
\* setter of Settings.startDayOfWeek.
HandleWeekStartChange(value) ==
    /\ Observing
    /\ phase = "running"
    /\ IF value # NaN /\ value >= 0 /\ value <= 6
       THEN /\ m_startDayOfWeek' = value
            /\ localStorage' = [localStorage EXCEPT
                                   !.startDayOfWeek = Item(toString(value))]
       ELSE UNCHANGED <<m_startDayOfWeek, localStorage>>
    /\ call' = [op |-> "handleWeekStartChange", arg |-> value, ret |-> <<>>]
    /\ UNCHANGED <<foodVars, m_historyEntries, now, phase>>
    /\ UNCHANGED pageVars

\* Time passes.
Tick(instant) ==
    /\ Observing
    /\ compareTime(now, instant) < 0
    /\ now' = instant
    /\ call' = NoCall
    /\ UNCHANGED <<foodVars, m_historyEntries, m_startDayOfWeek, localStorage,
                   phase>>
    /\ UNCHANGED pageVars

\* historyData.getWeekEntryForDate(date).
WeekEntryForDate(date) ==
    /\ Observing
    /\ phase = "running"
    /\ call' = [op |-> "getWeekEntryForDate", arg |-> date,
                ret |-> getWeekEntryForDate(date)]
    /\ UNCHANGED <<foodVars, historyVars>>
    /\ UNCHANGED pageVars

\* historyData.getCountForToday(); after is the call made before it.
GetCountForToday ==
    /\ Observing
    /\ phase = "running"
    /\ call' = [op |-> "getCountForToday", arg |-> now,
                ret |-> getWeekEntryForDate(now), after |-> call.op]
    /\ UNCHANGED <<foodVars, historyVars>>
    /\ UNCHANGED pageVars

\* historyData.getCountsPerWeek(); after is the call made before it.
GetCountsPerWeek ==
    /\ Observing
    /\ phase = "running"
    /\ call' = [op |-> "getCountsPerWeek", arg |-> now,
                ret |-> getCountsPerWeek(now), after |-> call.op]
    /\ UNCHANGED <<foodVars, historyVars>>
    /\ UNCHANGED pageVars

Init == InitFood /\ InitIdle /\ InitPages /\ call = NoCall

Next ==
    \/ \E rows \in StartupRows : Run(rows)
    \/ LoadCsvFails
    \/ Reload
    \/ \E entries \in PendingLists(MaxLog - Len(m_historyEntries)) : Add(entries)
    \/ Clear
    \/ \E value \in WeekStartChoices : HandleWeekStartChange(value)
    \/ \E instant \in ClockInstants : Tick(instant)
    \/ \E date \in ClockInstants : WeekEntryForDate(date)
    \/ GetCountForToday
    \/ GetCountsPerWeek

Spec == Init /\ [][Next]_vars

(***************************************************************************)
(* The pages: the clicks of the user on the page that is visible and the   *)
(* events of the speech recognition, which arrive whatever page is shown.  *)
(***************************************************************************)
HeardApple == <<"a", "p", "p", "l", "e">>

HeardStop == <<"s", "t", "o", "p">>

\* The rows of the CSV file while the pages are used: one food with a
\* synonym.
PageRows ==
    <<<<<<"a", "p", "p", "l", "e">>, <<"f", "r", "u", "i", "t">>,
        <<"g", "r", "e", "e", "n", " ", "a", "p", "p", "l", "e">>>>>>

\* The events of the recognition: a final stop word, and a final food name
\* followed by an interim stop word.
RecognitionEvents ==
    {<<[transcript |-> HeardStop, isFinal |-> TRUE]>>,
     <<[transcript |-> HeardApple, isFinal |-> TRUE],
       [transcript |-> HeardStop, isFinal |-> FALSE]>>}

\* Of the handlers of the pages, call keeps the ones that save the pending
\* list or stop a dictation; after any other handler no call is observed.
\* The user can click on a page when it is visible.
Visible(page) == phase = "running" /\ page \notin hiddenPages

\* page.show() as far as the dictation page is concerned: onShowStart of
\* the dictation page starts a session, the other pages build their lists.
PageShown(page) ==
    IF page = "dictation"
    THEN /\ m_active' = TRUE
         /\ m_recordedText' = <<>>
         /\ pauseShown' = TRUE
         /\ recognition' = IF recognition = "inactive" THEN "running"
                           ELSE recognition
         /\ matcher' = NewSession
    ELSE UNCHANGED dictationVars

\* mainController.showPage(page) from a handler.
Show(page) ==
    LET shown == showPage(m_pageStack, hiddenPages, page, FALSE)
    IN  /\ m_pageStack' = shown.stack
        /\ hiddenPages' = shown.hidden
        /\ PageShown(page)

\* mainController.back() from a handler.
Back ==
    LET went == back(m_pageStack, hiddenPages)
    IN  /\ m_pageStack' = went.stack
        /\ hiddenPages' = went.hidden
        /\ IF went.stack # <<>> THEN PageShown(top(went.stack))
           ELSE UNCHANGED dictationVars

\* DictationPage.stop() with the recorded text text; seen is what the
\* matcher saw before.
Stop(text, seen) ==
    IF m_active
    THEN LET shown == showConfirm(m_pageStack, hiddenPages)
         IN  /\ m_active' = FALSE
             /\ recognition' = IF recognition = "running" THEN "stopping"
                               ELSE recognition
             /\ m_compareEntries' = processText(m_compareItemsByLength, text)
             /\ matcher' = [seen EXCEPT !.calls = @ + 1, !.text = text]
             /\ m_pageStack' = shown.stack
             /\ hiddenPages' = shown.hidden
    ELSE /\ matcher' = seen
         /\ UNCHANGED <<m_active, recognition, m_compareEntries, m_pageStack,
                        hiddenPages>>

HandleSettingsButtonClick ==
    /\ Visible("home")
    /\ Show("settings")
    /\ call' = NoCall
    /\ UNCHANGED <<foodVars, historyVars, m_compareEntries, m_selectedWeek>>

HandleHistoryButtonClick ==
    /\ Visible("home")
    /\ Show("history")
    /\ call' = NoCall
    /\ UNCHANGED <<foodVars, historyVars, m_compareEntries, m_selectedWeek>>

HandleDictateButtonClick ==
    /\ Visible("home")
    /\ Show("dictation")
    /\ call' = NoCall
    /\ UNCHANGED <<foodVars, historyVars, m_compareEntries, m_selectedWeek>>

\* HomePage.handleManualButtonClick: the pending list is emptied and the
\* confirm page shown.
HandleManualButtonClick ==
    /\ Visible("home")
    /\ m_compareEntries' = <<>>
    /\ LET shown == showConfirm(m_pageStack, hiddenPages)
       IN  m_pageStack' = shown.stack /\ hiddenPages' = shown.hidden
    /\ call' = NoCall
    /\ UNCHANGED <<foodVars, historyVars, dictationVars, m_selectedWeek>>

\* HistoryPage.handleViewClick on one of the weeks listed.
HandleViewClick(entry) ==
    /\ Visible("history")
    /\ m_selectedWeek' = entry
    /\ Show("week")
    /\ call' = NoCall
    /\ UNCHANGED <<foodVars, historyVars, m_compareEntries>>

\* The back button in the header of the visible page.
HandleBackClick ==
    /\ \E page \in PagesWithBackButton : Visible(page)
    /\ Back
    /\ call' = NoCall
    /\ UNCHANGED <<foodVars, historyVars, m_compareEntries, m_selectedWeek>>

\* ConfirmPage.handleAddClick.
HandleConfirmAddClick ==
    /\ Visible("confirm")
    /\ Show("add")
    /\ call' = NoCall
    /\ UNCHANGED <<foodVars, historyVars, m_compareEntries, m_selectedWeek>>

\* AddPage.handleAddClick(entry) on one of the alias records listed.
HandleAddClick(entry) ==
    /\ Visible("add")
    /\ Len(m_compareEntries) < MaxPending
    /\ m_compareEntries' = Append(m_compareEntries, entry)
    /\ Back
    /\ call' = NoCall
    /\ UNCHANGED <<foodVars, historyVars, m_selectedWeek>>

\* ConfirmPage.handleRemoveClick(entry) on one of the pending records.
HandleRemoveClick(entry) ==
    /\ Visible("confirm")
    /\ m_compareEntries' = removeCompareEntry(m_compareEntries, entry)
    /\ call' = NoCall
    /\ UNCHANGED <<foodVars, historyVars, m_pageStack, hiddenPages,
                   dictationVars, m_selectedWeek>>

\* ConfirmPage.handleSaveClick; the save button is disabled while nothing
\* is pending. arg keeps the pending list that was saved.
HandleSaveClick ==
    /\ Visible("confirm")
    /\ m_compareEntries # <<>>
    /\ Len(m_historyEntries) + Len(m_compareEntries) <= MaxLog
    /\ LET log == sortEntries(pushEntries(m_historyEntries, m_compareEntries,
                                          now))
       IN  /\ m_historyEntries' = log
           /\ localStorage' = [localStorage EXCEPT
                                  !.historyData = Item(saveToStorage(log))]
    /\ m_compareEntries' = <<>>
    /\ Back
    /\ call' = [op |-> "handleSaveClick", arg |-> m_compareEntries,
                ret |-> <<>>]
    /\ UNCHANGED <<foodVars, m_startDayOfWeek, now, phase, m_selectedWeek>>

\* DictationPage.handleStopClick.
HandleStopClick ==
    /\ Visible("dictation")
    /\ Stop(m_recordedText, matcher)
    /\ call' = [op |-> "handleStopClick", arg |-> <<>>, ret |-> <<>>]
    /\ UNCHANGED <<foodVars, historyVars, m_recordedText, pauseShown,
                   m_selectedWeek>>

\* DictationPage.handlePauseClick: recognition.stop() and showRecord().
HandlePauseClick ==
    /\ Visible("dictation")
    /\ pauseShown
    /\ recognition' = IF recognition = "running" THEN "stopping"
                      ELSE recognition
    /\ pauseShown' = FALSE
    /\ call' = NoCall
    /\ UNCHANGED <<foodVars, historyVars, m_pageStack, hiddenPages, m_active,
                   m_recordedText, matcher, m_compareEntries, m_selectedWeek>>

\* DictationPage.handleRecordClick: recognition.start() throws while the
\* recognition has not ended, and then showPause() is not reached.
HandleRecordClick ==
    /\ Visible("dictation")
    /\ ~pauseShown
    /\ IF recognition = "inactive"
       THEN recognition' = "running" /\ pauseShown' = TRUE
       ELSE UNCHANGED <<recognition, pauseShown>>
    /\ call' = NoCall
    /\ UNCHANGED <<foodVars, historyVars, m_pageStack, hiddenPages, m_active,
                   m_recordedText, matcher, m_compareEntries, m_selectedWeek>>

\* DictationPage.handleRecognitionResult(event), whatever page is shown.
HandleRecognitionResult(results) ==
    /\ phase = "running"
    /\ recognition \in {"running", "stopping"}
    /\ matcher.heard < MaxHeard
    /\ LET text == recordedTextAfter(m_recordedText, results)
           seen == [matcher EXCEPT !.heard = @ + 1,
                                   !.finals = @ \o FinalFragments(results)]
       IN  /\ m_recordedText' = text
           /\ IF containsStopCommand(text) THEN Stop(text, seen)
              ELSE /\ matcher' = seen
                   /\ UNCHANGED <<m_active, recognition, m_compareEntries,
                                  m_pageStack, hiddenPages>>
    /\ call' = [op |-> "handleRecognitionResult", arg |-> <<>>,
                ret |-> <<>>]
    /\ UNCHANGED <<foodVars, historyVars, pauseShown, m_selectedWeek>>

\* DictationPage.handleRecognitionError: showRecord(); the recognition ends
\* after an error.
HandleRecognitionError ==
    /\ phase = "running"
    /\ recognition = "running"
    /\ recognition' = "stopping"
    /\ pauseShown' = FALSE
    /\ call' = NoCall
    /\ UNCHANGED <<foodVars, historyVars, m_pageStack, hiddenPages, m_active,
                   m_recordedText, matcher, m_compareEntries, m_selectedWeek>>

\* DictationPage.handleRecognitionEnd: showRecord().
HandleRecognitionEnd ==
    /\ phase = "running"
    /\ recognition # "inactive"
    /\ recognition' = "inactive"
    /\ pauseShown' = FALSE
    /\ call' = NoCall
    /\ UNCHANGED <<foodVars, historyVars, m_pageStack, hiddenPages, m_active,
                   m_recordedText, matcher, m_compareEntries, m_selectedWeek>>

NextPages ==
    \/ Run(PageRows)
    \/ HandleSettingsButtonClick
    \/ HandleHistoryButtonClick
    \/ HandleDictateButtonClick
    \/ HandleManualButtonClick
    \/ \E i \in DOMAIN getCountsPerWeek(now) :
          HandleViewClick(getCountsPerWeek(now)[i])
    \/ HandleBackClick
    \/ HandleConfirmAddClick
    \/ \E i \in DOMAIN m_compareItemsByOriginal :
          HandleAddClick(m_compareItemsByOriginal[i])
    \/ \E i \in DOMAIN m_compareEntries : HandleRemoveClick(m_compareEntries[i])
    \/ HandleSaveClick
    \/ HandleStopClick
    \/ HandlePauseClick
    \/ HandleRecordClick
    \/ \E results \in RecognitionEvents : HandleRecognitionResult(results)
    \/ HandleRecognitionError
    \/ HandleRecognitionEnd

SpecPages == Init /\ [][NextPages]_vars

(***************************************************************************)
(* The catalogs of the scenarios, as import builds them.                   *)
(***************************************************************************)
Pea == <<"p", "e", "a">>

Peanut == <<"p", "e", "a", "n", "u", "t">>

PeanutButter ==
    <<"p", "e", "a", "n", "u", "t", " ", "b", "u", "t", "t", "e", "r">>

Apple == <<"a", "p", "p", "l", "e">>

GreenApple == <<"g", "r", "e", "e", "n", " ", "a", "p", "p", "l", "e">>

Banana == <<"b", "a", "n", "a", "n", "a">>

Fruit == <<"f", "r", "u", "i", "t">>

PeaCatalog ==
    <<[ref |-> 1, name |-> Pea, category |-> <<"v">>, synonyms |-> <<>>],
      [ref |-> 2, name |-> PeanutButter, category |-> <<"s">>,
       synonyms |-> <<Peanut>>]>>

AppleCatalog ==
    <<[ref |-> 1, name |-> Apple, category |-> Fruit,
       synonyms |-> <<GreenApple>>],
      [ref |-> 2, name |-> Banana, category |-> Fruit, synonyms |-> <<>>]>>

\* The originals and the food names of a sequence of alias records.
Originals(items) == [i \in DOMAIN items |-> items[i].original]

FoodNames(items) == [i \in DOMAIN items |-> items[i].food.name]

\* The position in the by-length list of the alias record with identity ref.
PositionByLength(ref) ==
    CHOOSE i \in DOMAIN m_compareItemsByLength :
        m_compareItemsByLength[i].ref = ref

(***************************************************************************)
(* Properties of the matcher.                                              *)
(***************************************************************************)
\* C1: with the catalog of "pea" and "peanut butter" (synonym "peanut"),
\* processText("I ate peanut butter") returns exactly one alias record, the
\* one whose original is "peanut butter".
C1_PeanutButterOnce ==
    (call.op = "processText" /\ m_foodEntries = PeaCatalog
        /\ call.arg = PeaText)
    => /\ Len(call.ret) = 1
       /\ call.ret[1].original = PeanutButter
       /\ call.ret[1].food.name = PeanutButter

C1_Witness ==
    /\ call.op = "processText"
    /\ m_foodEntries = PeaCatalog
    /\ call.arg = PeaText
    /\ Len(m_compareItemsByLength) = 3
    /\ Originals(call.ret) = <<PeanutButter>>

\* C2: the normalized key of every alias record processText returns occurs
\* as a contiguous substring of the normalized input text.
C2_MatchesOccurInInput ==
    call.op = "processText"
    => \A i \in DOMAIN call.ret :
          Includes(normalizeForComparison(call.arg), call.ret[i].normalized)

\* C3: processText returns each alias record at most once, also when the
\* text holds the alias several times.
C3_EachAliasAtMostOnce ==
    call.op = "processText"
    => \A i, j \in DOMAIN call.ret :
          i # j => call.ret[i].ref # call.ret[j].ref

C3_Witness ==
    /\ call.op = "processText"
    /\ m_foodEntries = AppleCatalog
    /\ call.arg = AppleAppleText
    /\ Originals(call.ret) = <<Apple>>

\* C4: the result of processText is a subsequence of the by-length list;
\* for the apple and banana catalog and "I had a green apple and a banana"
\* it is the "green apple" alias of apple followed by the "banana" alias.
C4_ScanOrder ==
    call.op = "processText"
    => /\ \A i \in DOMAIN call.ret :
             /\ \E k \in DOMAIN m_compareItemsByLength :
                   m_compareItemsByLength[k] = call.ret[i]
             /\ \A j \in DOMAIN call.ret :
                   i < j => PositionByLength(call.ret[i].ref)
                               < PositionByLength(call.ret[j].ref)
       /\ (m_foodEntries = AppleCatalog /\ call.arg = AppleText)
          => /\ Originals(call.ret) = <<GreenApple, Banana>>
             /\ FoodNames(call.ret) = <<Apple, Banana>>

C4_Witness ==
    /\ call.op = "processText"
    /\ m_foodEntries = AppleCatalog
    /\ call.arg = AppleText
    /\ Len(call.ret) = 2

\* C5: processText returns the empty sequence for the empty text and for a
\* text that contains no alias, whatever rows were imported.
C5_NothingToMatch ==
    (call.op = "processText"
        /\ \/ call.arg = <<>>
           \/ \A k \in DOMAIN m_compareItemsByLength :
                 ~Includes(normalizeForComparison(call.arg),
                           m_compareItemsByLength[k].normalized))
    => call.ret = <<>>

(***************************************************************************)
(* Properties of the normaliser.                                           *)
(***************************************************************************)
\* C6: normalizeForComparison is idempotent: normalising its result again
\* gives the same string.
C6_NormalizeIdempotent ==
    call.op = "normalizeForComparison"
    => normalizeForComparison(call.ret) = call.ret

C6_Witness ==
    /\ call.op = "normalizeForComparison"
    /\ call.arg = <<" ", "A", " ", "a">>
    /\ call.ret = <<"a", "a">>

(***************************************************************************)
(* Properties of the week aggregator.                                      *)
(***************************************************************************)
LastMs == MsPerDay - 1

Sunday2359 == Date(7, (23 * 60 + 59) * 60 * 1000)

\* C7: startOfWeek(d) is the day at most 6 days before the day of d whose
\* week day is the week start, at 00:00:00.000, the offset being
\* (weekday(d) - s + 7) mod 7; with Monday as week start, Sunday 23:59 is
\* in the week that started the Monday before.
C7_StartOfWeek ==
    call.op = "startOfWeek"
    => /\ call.ret.ms = 0
       /\ call.ret.day % 7 = m_startDayOfWeek
       /\ call.arg.day - call.ret.day \in 0..6
       /\ call.arg.day - call.ret.day
             = ((call.arg.day % 7) - m_startDayOfWeek + 7) % 7
       /\ (m_startDayOfWeek = 1 /\ call.arg = Sunday2359)
          => call.ret = Date(1, 0)

C7_Witness ==
    /\ call.op = "startOfWeek"
    /\ m_startDayOfWeek = 1
    /\ call.arg = Sunday2359
    /\ call.ret = Date(1, 0)

\* C8: a WeekEntry of getWeekEntryForDate(d) ends 6 days after its start at
\* 23:59:59.999, starts at 00:00:00.000, and d lies between the two.
C8_WeekInterval ==
    call.op = "getWeekEntryForDate"
    => /\ call.ret.endDate = Date(call.ret.startDate.day + 6, LastMs)
       /\ call.ret.startDate.ms = 0
       /\ compareTime(call.ret.startDate, call.arg) <= 0
       /\ compareTime(call.arg, call.ret.endDate) <= 0

C8_Witness ==
    /\ call.op = "getWeekEntryForDate"
    /\ m_startDayOfWeek = 1
    /\ call.arg = Date(7, LastMs)
    /\ call.ret.startDate = Date(1, 0)
    /\ call.ret.endDate = call.arg

\* The foods of the events of the log dated within [startDate, endDate].
FoodsBetween(startDate, endDate) ==
    {m_historyEntries[i].food : i \in
        {j \in DOMAIN m_historyEntries :
            /\ compareTime(startDate, m_historyEntries[j].date) <= 0
            /\ compareTime(m_historyEntries[j].date, endDate) <= 0}}

\* C9: the foods of getWeekEntryForDate(d) are exactly the distinct foods of
\* the events dated within [startDate, endDate], the two boundary instants
\* included; with Sunday as week start, events on 2024-01-07 and 2024-01-13
\* are in the one week from 2024-01-07 to 2024-01-13T23:59:59.999.
C9_WeekFoods ==
    call.op = "getWeekEntryForDate"
    => /\ {call.ret.foods[i] : i \in DOMAIN call.ret.foods}
             = FoodsBetween(call.ret.startDate, call.ret.endDate)
       /\ \A i, j \in DOMAIN call.ret.foods :
             i # j => call.ret.foods[i] # call.ret.foods[j]
       /\ (m_startDayOfWeek = 0 /\ call.arg.day \in 7..13)
          => /\ call.ret.startDate = Date(7, 0)
             /\ call.ret.endDate = Date(13, LastMs)
             /\ \A i \in DOMAIN m_historyEntries :
                   m_historyEntries[i].date.day \in {7, 13}
                   => \E k \in DOMAIN call.ret.foods :
                         call.ret.foods[k] = m_historyEntries[i].food

C9_Witness ==
    /\ call.op = "getWeekEntryForDate"
    /\ m_startDayOfWeek = 0
    /\ Len(m_historyEntries) = 2
    /\ m_historyEntries[1].date = Date(13, LastMs)
    /\ m_historyEntries[2].date = Date(7, 0)
    /\ call.ret.startDate = Date(7, 0)
    /\ call.ret.endDate = Date(13, LastMs)
    /\ Len(call.ret.foods) = 2

(***************************************************************************)
(* Properties of the persisted event record.                               *)
(***************************************************************************)
\* C10: for every entry of the log whose food name is in the catalog,
\* createFromStorage(entry.toJson()) has the same food name, the same
\* consumedName and the same date to the millisecond.
C10_RoundTrip ==
    \A i \in DOMAIN m_historyEntries :
        LET entry == m_historyEntries[i]
            again == createFromStorage(m_foodEntries, toJson(entry))
        IN  findForName(m_foodEntries, entry.food.name) # Null
            => /\ again # Threw
               /\ again.food.name = entry.food.name
               /\ again.consumedName = entry.consumedName
               /\ again.date = entry.date

C10_Witness ==
    /\ Len(m_historyEntries) = 2
    /\ m_historyEntries[1].date = Date(13, LastMs)
    /\ m_historyEntries[1].consumedName = GreenApple
    /\ m_historyEntries[1].food.name = Apple
    /\ findForName(m_foodEntries, Apple) # Null
    /\ m_historyEntries[2].food.name = Banana

\* The date of the oldest event of the log.
OldestDate ==
    LET oldest == CHOOSE i \in DOMAIN m_historyEntries :
                      \A j \in DOMAIN m_historyEntries :
                          DateLE(m_historyEntries[i].date,
                                 m_historyEntries[j].date)
    IN  m_historyEntries[oldest].date

\* C11: whenever the log is not empty, getCountsPerWeek returns a sequence
\* that is not empty and whose last WeekEntry has the date of the oldest
\* event of the log between its startDate and its endDate.
C11_OldestInLastWeek ==
    (call.op = "getCountsPerWeek" /\ m_historyEntries # <<>>)
    => /\ call.ret # <<>>
       /\ DateLE(call.ret[Len(call.ret)].startDate, OldestDate)
       /\ DateLE(OldestDate, call.ret[Len(call.ret)].endDate)

\* Three weeks are returned and the oldest event is the last instant of the
\* last of them.
C11_Witness ==
    /\ call.op = "getCountsPerWeek"
    /\ m_historyEntries # <<>>
    /\ Len(call.ret) = 3
    /\ OldestDate = call.ret[3].endDate

\* C12: the startDates returned by getCountsPerWeek decrease by exactly 7
\* days from one entry to the next and each week ends the instant before
\* the one returned before it starts, the first entry is the week of the
\* current time, and every entry holds the foods of the events of its week,
\* none when the week has no event.
C12_ConsecutiveWeeks ==
    (call.op = "getCountsPerWeek" /\ call.ret # <<>>)
    => /\ \A i \in 1..(Len(call.ret) - 1) :
             /\ compareTime(call.ret[i + 1].startDate,
                            call.ret[i].startDate) < 0
             /\ call.ret[i + 1].startDate
                   = Date(call.ret[i].startDate.day - 7,
                          call.ret[i].startDate.ms)
             /\ call.ret[i + 1].endDate
                   = Date(call.ret[i].startDate.day - 1, LastMs)
       /\ DateLE(call.ret[1].startDate, call.arg)
       /\ DateLE(call.arg, call.ret[1].endDate)
       /\ call.ret[1].startDate = startOfWeek(call.arg)
       /\ \A i \in DOMAIN call.ret :
             {call.ret[i].foods[k] : k \in DOMAIN call.ret[i].foods}
                = FoodsBetween(call.ret[i].startDate, call.ret[i].endDate)

\* The week of the current time and the week before it have no event, the
\* week before these has one.
C12_Witness ==
    /\ call.op = "getCountsPerWeek"
    /\ Len(call.ret) = 3
    /\ call.ret[1].foods = <<>>
    /\ call.ret[2].foods = <<>>
    /\ call.ret[3].foods # <<>>

\* A record stored under historyData names a food that findForName does not
\* find in the catalog entries.
UnresolvedRecord(entries, storage) ==
    /\ storage.historyData.present
    /\ \E i \in DOMAIN storage.historyData.value :
          findForName(entries, storage.historyData.value[i].foodName) = Null

\* C13: when a stored record names a food that the imported catalog does not
\* hold, the initialize of the start-up throws: the log in memory stays
\* empty, the stored records are left as they were, the error reaches the
\* caller of run and the application is not started.
C13_InitializeFailsWhole ==
    [][(call'.op = "run" /\ UnresolvedRecord(m_foodEntries', localStorage))
       => /\ call'.ret = TRUE
          /\ m_historyEntries' = <<>>
          /\ localStorage' = localStorage
          /\ phase' = "failed"]_vars

\* The start-up failed with a catalog that holds banana and not apple, the
\* stored records naming both.
C13_Witness ==
    /\ call.op = "run"
    /\ call.ret = TRUE
    /\ phase = "failed"
    /\ m_historyEntries = <<>>
    /\ findForName(m_foodEntries, Banana) # Null
    /\ localStorage.historyData.present
    /\ \E i, j \in DOMAIN localStorage.historyData.value :
          /\ localStorage.historyData.value[i].foodName = Apple
          /\ localStorage.historyData.value[j].foodName = Banana

\* The rows with at least 2 cells, in the order of the input.
RowsWithTwoCells(rows) == SelectSeq(rows, LAMBDA row : Len(row) >= 2)

\* C14: after import(rows) the catalog holds, in input order, one FoodEntry
\* for each row with at least 2 cells and none for the other rows, and every
\* alias record of the two lists belongs to a food of this catalog.
C14_ImportReplacesCatalog ==
    call.op = "import"
    => LET kept == RowsWithTwoCells(call.arg)
       IN  /\ Len(m_foodEntries) = Len(kept)
           /\ \A i \in DOMAIN m_foodEntries :
                 /\ m_foodEntries[i].name = normalizeName(kept[i][1])
                 /\ m_foodEntries[i].category = normalizeName(kept[i][2])
           /\ \A k \in DOMAIN m_compareItemsByLength :
                 \E i \in DOMAIN m_foodEntries :
                     m_compareItemsByLength[k].food = m_foodEntries[i]
           /\ \A k \in DOMAIN m_compareItemsByOriginal :
                 \E i \in DOMAIN m_foodEntries :
                     m_compareItemsByOriginal[k].food = m_foodEntries[i]

\* A row of one cell was dropped and the row of two cells after it was kept.
C14_Witness ==
    /\ call.op = "import"
    /\ Len(call.arg) = 2
    /\ Len(call.arg[1]) = 1
    /\ Len(call.arg[2]) = 2
    /\ Len(m_foodEntries) = 1
    /\ m_foodEntries[1].name = <<"a", "a">>

\* C15: after every import no two entries of the catalog have the same
\* name.
C15_UniqueNames ==
    call.op = "import"
    => \A i, j \in DOMAIN m_foodEntries :
           i # j => m_foodEntries[i].name # m_foodEntries[j].name

\* The aliases of the catalog entries in the order of their insertion: food
\* after food, the name of a food and then its synonyms in order.
RECURSIVE AliasesInOrder(_)
AliasesInOrder(entries) ==
    IF entries = <<>> THEN <<>>
    ELSE <<[original |-> Head(entries).name, food |-> Head(entries)]>>
         \o [k \in 1..Len(Head(entries).synonyms) |->
                [original |-> Head(entries).synonyms[k],
                 food |-> Head(entries)]]
         \o AliasesInOrder(Tail(entries))

\* The identities of the alias records of a list, in the order of the list.
Refs(items) == [k \in DOMAIN items |-> items[k].ref]

\* C16: after every import the by-length list is ordered by non-increasing
\* length of the normalized key, and alias records of equal key length are
\* in the order of their insertion, which is the order of the foods of the
\* catalog and within a food the name and then the synonyms in order.
C16_ByLengthStable ==
    call.op = "import"
    => /\ \A i, j \in DOMAIN m_compareItemsByLength :
             i < j
             => /\ Len(m_compareItemsByLength[i].normalized)
                      >= Len(m_compareItemsByLength[j].normalized)
                /\ Len(m_compareItemsByLength[i].normalized)
                      = Len(m_compareItemsByLength[j].normalized)
                   => m_compareItemsByLength[i].ref
                         < m_compareItemsByLength[j].ref
       /\ \A k \in DOMAIN m_compareItemsByLength :
             LET item == m_compareItemsByLength[k]
                 inserted == AliasesInOrder(m_foodEntries)
             IN  /\ item.ref \in DOMAIN inserted
                 /\ item.original = inserted[item.ref].original
                 /\ item.food = inserted[item.ref].food

\* Of four alias records the second has the shortest key and the other
\* three, of equal key length, stay in the order of their insertion.
C16_Witness ==
    /\ call.op = "import"
    /\ Refs(m_compareItemsByLength) = <<1, 3, 4, 2>>

\* The number of alias records of the catalog entries.
RECURSIVE AliasCount(_)
AliasCount(entries) ==
    IF entries = <<>> THEN 0
    ELSE 1 + Len(Head(entries).synonyms) + AliasCount(Tail(entries))

\* C17: after every import getList() and the by-length list hold the same
\* alias records, each once, one for the name and one for each synonym of
\* every food of the catalog, and getList() is in ascending order of
\* original.
C17_SameAliasesByOriginal ==
    call.op = "import"
    => /\ {m_compareItemsByOriginal[k] : k \in DOMAIN m_compareItemsByOriginal}
             = {m_compareItemsByLength[k] : k \in DOMAIN m_compareItemsByLength}
       /\ Len(m_compareItemsByOriginal) = AliasCount(m_foodEntries)
       /\ Len(m_compareItemsByLength) = AliasCount(m_foodEntries)
       /\ \A i, j \in DOMAIN m_compareItemsByOriginal :
             i # j => m_compareItemsByOriginal[i].ref
                         # m_compareItemsByOriginal[j].ref
       /\ \A i, j \in DOMAIN m_compareItemsByLength :
             i # j => m_compareItemsByLength[i].ref
                         # m_compareItemsByLength[j].ref
       /\ \A i, j \in DOMAIN m_compareItemsByOriginal :
             i < j => localeCompare(m_compareItemsByOriginal[i].original,
                                    m_compareItemsByOriginal[j].original) <= 0

\* Four alias records whose order by original differs from the order of
\* their insertion and from the order by length.
C17_Witness ==
    /\ call.op = "import"
    /\ Len(m_compareItemsByOriginal) = 4
    /\ Refs(m_compareItemsByOriginal) # <<1, 2, 3, 4>>
    /\ Refs(m_compareItemsByOriginal) # Refs(m_compareItemsByLength)
    /\ m_foodEntries[1].synonyms # <<>>

\* The entries of a log dated date, in the order of the log.
EntriesDated(log, date) == SelectSeq(log, LAMBDA entry : entry.date = date)

\* The log is in order of non-increasing date.
MostRecentFirst(log) ==
    \A i, j \in DOMAIN log : i < j => compareTime(log[i].date, log[j].date) >= 0

\* C18: the log in memory is always in order of non-increasing date; after
\* an add the events of one timestamp are those the log held before, in
\* their order, followed by the added ones in the order of the input, and
\* after an initialize they are in the order in which they were stored.
C18_LogSortedStable ==
    [][/\ MostRecentFirst(m_historyEntries')
       /\ call'.op = "add"
          => LET pushed == m_historyEntries
                              \o [k \in DOMAIN call'.arg |->
                                     createFromInput(call'.arg[k], now)]
             IN  /\ Len(m_historyEntries') = Len(pushed)
                 /\ \A k \in DOMAIN pushed :
                       EntriesDated(m_historyEntries', pushed[k].date)
                          = EntriesDated(pushed, pushed[k].date)
       /\ (call'.op = "run" /\ phase' = "running"
              /\ localStorage.historyData.present)
          => LET stored == localStorage.historyData.value
             IN  /\ Len(m_historyEntries') = Len(stored)
                 /\ \A k \in DOMAIN stored :
                       saveToStorage(EntriesDated(m_historyEntries',
                                                  parseDate(stored[k].date)))
                          = SelectSeq(stored,
                               LAMBDA data : data.date = stored[k].date)]_vars

\* Two events of one timestamp, added in one call under different names,
\* are in the log in the order of the input.
C18_Witness ==
    /\ call.op = "add"
    /\ Len(call.arg) = 2
    /\ call.arg[1].original # call.arg[2].original
    /\ Len(m_historyEntries) = 2
    /\ m_historyEntries[1].date = m_historyEntries[2].date
    /\ m_historyEntries[1].consumedName = call.arg[1].original
    /\ m_historyEntries[2].consumedName = call.arg[2].original

\* The records stored under historyData name, in order, the food, the
\* consumed name and the date of the events of the log in memory.
StorageDecodesToLog ==
    /\ localStorage.historyData.present
    /\ LET stored == localStorage.historyData.value
       IN  /\ Len(stored) = Len(m_historyEntries)
           /\ \A i \in DOMAIN stored :
                 /\ stored[i].foodName = m_historyEntries[i].food.name
                 /\ stored[i].consumedName = m_historyEntries[i].consumedName
                 /\ parseDate(stored[i].date) = m_historyEntries[i].date

\* C19: after every add and every clear, and for as long as the application
\* runs afterwards, the sequence stored under historyData decodes to the log
\* in memory, in the same order.
C19_StorageMatchesLog ==
    /\ call.op \in {"add", "clear"} => StorageDecodesToLog
    /\ (phase = "running" /\ localStorage.historyData.present)
       => StorageDecodesToLog

\* An add stored two events, the first consumed under a synonym.
C19_Witness ==
    /\ call.op = "add"
    /\ Len(m_historyEntries) = 2
    /\ m_historyEntries[1].consumedName = GreenApple
    /\ StorageDecodesToLog

\* C20: clear empties the log in memory and stores the empty sequence; a
\* getCountsPerWeek made right after it returns the empty sequence and a
\* getCountForToday made right after it returns a WeekEntry without foods.
C20_ClearEmpties ==
    /\ call.op = "clear"
       => /\ m_historyEntries = <<>>
          /\ localStorage.historyData = Item(<<>>)
    /\ (call.op = "getCountsPerWeek" /\ call.after = "clear")
       => call.ret = <<>>
    /\ (call.op = "getCountForToday" /\ call.after = "clear")
       => call.ret.foods = <<>>

\* getCountsPerWeek was called right after a clear.
C20_Witness ==
    /\ call.op = "getCountsPerWeek"
    /\ call.after = "clear"
    /\ call.ret = <<>>
    /\ localStorage.historyData = Item(<<>>)

\* The working text of processText after the alias records items were
\* scanned in order.
RECURSIVE WorkingText(_, _)
WorkingText(items, normalizedText) ==
    IF items = <<>> THEN normalizedText
    ELSE WorkingText(Tail(items),
             IF Includes(normalizedText, Head(items).normalized)
             THEN ReplaceAll(normalizedText, Head(items).normalized, <<>>)
             ELSE normalizedText)

\* C26: in processText, right after an alias record was recorded as a match
\* the working text holds no occurrence of its normalized key, and no two
\* alias records of one result have the same normalized key.
C26_KeyGoneAfterMatch ==
    call.op = "processText"
    => /\ \A k \in DOMAIN m_compareItemsByLength :
             LET key == m_compareItemsByLength[k].normalized
                 before == WorkingText(SubSeq(m_compareItemsByLength, 1, k - 1),
                                       normalizeForComparison(call.arg))
                 after == WorkingText(SubSeq(m_compareItemsByLength, 1, k),
                                      normalizeForComparison(call.arg))
             IN  Includes(before, key) => ~Includes(after, key)
       /\ \A i, j \in DOMAIN call.ret :
             i # j => call.ret[i].normalized # call.ret[j].normalized

\* C22: in every reachable state the week start held by Settings is an
\* integer of 0..6, after the construction from the stored value (0 when
\* there is none) and after every change made on the settings page.
C22_WeekStartInRange == m_startDayOfWeek \in 0..6

\* Settings was constructed anew from the stored value "6".
C22_Witness ==
    /\ phase = "loading"
    /\ localStorage.startDayOfWeek = Item(<<"6">>)
    /\ m_startDayOfWeek = 6

\* C23: a change of the week start leaves the log in memory and the stored
\* history as they were and stores the new value; getCountForToday and every
\* week of getCountsPerWeek, the past weeks too, start on the week day that
\* is set when they are computed.
C23_WeekStartChange ==
    [][/\ (call'.op = "handleWeekStartChange" /\ call'.arg \in 0..6)
          => /\ m_historyEntries' = m_historyEntries
             /\ localStorage'.historyData = localStorage.historyData
             /\ m_startDayOfWeek' = call'.arg
             /\ localStorage'.startDayOfWeek.present
             /\ parseInt(localStorage'.startDayOfWeek.value) = call'.arg
       /\ call'.op = "getCountForToday"
          => getDay(call'.ret.startDate) = m_startDayOfWeek'
       /\ call'.op = "getCountsPerWeek"
          => \A i \in DOMAIN call'.ret :
                 getDay(call'.ret[i].startDate) = m_startDayOfWeek']_vars

\* Right after a change of the week start to Monday, getCountsPerWeek
\* returns a past week with events that were added before the change.
C23_Witness ==
    /\ call.op = "getCountsPerWeek"
    /\ call.after = "handleWeekStartChange"
    /\ m_startDayOfWeek = 1
    /\ Len(call.ret) >= 2
    /\ call.ret[Len(call.ret)].foods # <<>>
    /\ getDay(call.ret[Len(call.ret)].startDate) = 1

\* The log that initialize builds from the stored records against the
\* catalog in memory.
ReloadedLog ==
    sortEntries(loadFromStorage(m_foodEntries, localStorage.historyData).entries)

\* The distinct foods that getWeekEntryForDate(date) collects from log.
WeekFoodsOf(log, date) ==
    collectFoods(log, startOfWeek(date), endOfWeek(startOfWeek(date)), <<>>)

\* C30: for a log built by add and stored, the log that initialize builds
\* from the storage against the same catalog gives, for every date, a week
\* of the same food names and of the same number of distinct foods.
C30_ReloadEquivalent ==
    (phase = "running" /\ localStorage.historyData.present)
    => /\ ~loadFromStorage(m_foodEntries, localStorage.historyData).threw
       /\ \A date \in ClockInstants :
             LET before == WeekFoodsOf(m_historyEntries, date)
                 after == WeekFoodsOf(ReloadedLog, date)
             IN  /\ Len(after) = Len(before)
                 /\ {after[i].name : i \in DOMAIN after}
                       = {before[i].name : i \in DOMAIN before}

\* The number of times e occurs in the sequence s.
Count(s, e) == Cardinality({i \in DOMAIN s : s[i] = e})

\* C21: the save of the confirm page adds one event for each pending alias
\* record, with the food of the alias, its original as consumed name and the
\* time of the save as date; the events the log held stay in it as they
\* were, and the pending list is empty afterwards.
C21_SaveAddsPending ==
    [][call'.op = "handleSaveClick"
       => LET pending == m_compareEntries
              added == [k \in DOMAIN pending |->
                          [food |-> pending[k].food,
                           consumedName |-> pending[k].original,
                           date |-> now]]
              events == {m_historyEntries'[i] : i \in DOMAIN m_historyEntries'}
                           \cup {m_historyEntries[i] : i \in DOMAIN m_historyEntries}
                           \cup {added[k] : k \in DOMAIN added}
          IN  /\ Len(m_historyEntries') = Len(m_historyEntries) + Len(pending)
              /\ \A e \in events :
                    Count(m_historyEntries', e)
                       = Count(m_historyEntries, e) + Count(added, e)
              /\ m_compareEntries' = <<>>]_vars

\* A pending green apple was saved into a log that held an apple event.
C21_Witness ==
    /\ call.op = "handleSaveClick"
    /\ Len(call.arg) = 1
    /\ call.arg[1].original = GreenApple
    /\ Len(m_historyEntries) = 2
    /\ m_historyEntries[1].consumedName = Apple
    /\ m_historyEntries[2].consumedName = GreenApple
    /\ m_historyEntries[2].food.name = Apple
    /\ m_compareEntries = <<>>

\* C25: between two showings of the dictation page processText is called at
\* most once; the call is made by the stop button or by a recognition event
\* after which the recorded text holds a stop word, and its text is the
\* final fragments accumulated since the page was shown, without the
\* interim ones. Events that arrive after the stop make no further call.
C25_MatcherOncePerSession ==
    [][/\ matcher'.calls <= 1
       /\ matcher'.calls > matcher.calls
          => /\ call'.op \in {"handleStopClick", "handleRecognitionResult"}
             /\ matcher'.text = matcher'.finals
             /\ call'.op = "handleRecognitionResult"
                => containsStopCommand(matcher'.finals)]_vars

\* After the stop made the one call, an event added a final fragment to the
\* recorded text.
C25_Witness ==
    /\ call.op = "handleRecognitionResult"
    /\ matcher.calls = 1
    /\ ~m_active
    /\ matcher.finals # matcher.text

C28_OnlyTopVisible ==
    (phase = "running" /\ m_pageStack # <<>>)
    => Pages \ hiddenPages = {top(m_pageStack)}

\* The confirm page is visible again after an alias was added on the add
\* page, which went back to it.
C28_Witness ==
    /\ phase = "running"
    /\ m_pageStack = <<"home", "confirm">>
    /\ matcher.calls = 0
    /\ Len(m_compareEntries) = 1
    /\ Pages \ hiddenPages = {"confirm"}

\* C29: a recognition event replaces the pending list and shows the confirm
\* page only while the dictation page is the top of the page stack.
C29_ResultOnlyOnDictationPage ==
    [][(/\ call'.op = "handleRecognitionResult"
        /\ \/ m_compareEntries' # m_compareEntries
           \/ m_pageStack' # m_pageStack)
       => (m_pageStack # <<>> /\ top(m_pageStack) = "dictation")]_vars

=============================================================================
